---------------------------- MODULE Spec2Model ----------------------------
(***************************************************************************)
(* State-machine model of LFUCache (0x01-caching/100-lfu_cache.py): a      *)
(* fixed-capacity key/value cache with least-frequently-used eviction and  *)
(* least-recently-used tie-breaking.                                       *)
(*                                                                         *)
(* An OrderedDict is a sequence of entries in insertion order; a           *)
(* defaultdict is a function whose domain is the set of keys it holds.     *)
(* Every call of put or get is one step.  The variables call, ret, raised  *)
(* and pre record the last call, what it returned or raised and the object *)
(* as it was just before the call, so that a property of one call is a     *)
(* state predicate.  The variables evictions, last_put and uses record the *)
(* history of the calls: the keys removed so far, the item of the latest   *)
(* put of each key present, and the number of accesses to each key present *)
(* since it was inserted.                                                  *)
(***************************************************************************)
EXTENDS Integers, Sequences, FiniteSets, TLC

\* Capacity of the cache (BaseCaching.MAX_ITEMS), scaled down.
MAX_ITEMS == 2

\* The calls that stamp an entry stop once lru_counter reaches MaxCounter.
MaxCounter == 5

\* The calls of LIFOCache and MRUCache that print stop once MaxLines lines
\* are printed.
MaxLines == 2

None == "None"
NoError == "NoError"

KeyNames == <<"A", "B", "C", "D", "E", "F", "G", "H">>
\* One key more than the cache can hold, so that eviction happens.
Keys == {KeyNames[i] : i \in 1..(MAX_ITEMS + 1)}
Items == {"x", "y"}

VARIABLES cache_data, frequency, lru, lru_counter, stdout,
          call, ret, raised, pre, evictions, last_put, uses

lfuVars == <<cache_data, frequency, lru, lru_counter, stdout,
             call, ret, raised, pre, evictions, last_put, uses>>

\* Server (3-hypermedia_del_pagination.py) and the client that pages through
\* it: the indexed dataset, the index of the client's next call, the rows it
\* has received, its last request, the last page and whether it is still
\* paging.
VARIABLES indexed_dataset, cursor, received, request, page, client

pageVars == <<indexed_dataset, cursor, received, request, page, client>>

\* LIFOCache (2-lifo_cache.py): the object, and the last call on it with
\* what it returned and the object as it was before.
VARIABLES lifo_cache_data, lifo_stdout, lifo_call, lifo_ret, lifo_pre

lifoVars == <<lifo_cache_data, lifo_stdout, lifo_call, lifo_ret, lifo_pre>>

\* MRUCache (4-mru_cache.py): the object, the last call on it with what it
\* returned and the object as it was before, and the key of the latest
\* successful put or get hit.
VARIABLES mru_cache_data, mru_stdout, mru_call, mru_ret, mru_pre, mru_last_used

mruVars == <<mru_cache_data, mru_stdout, mru_call, mru_ret, mru_pre,
             mru_last_used>>

vars == <<lfuVars, pageVars, lifoVars, mruVars>>

-----------------------------------------------------------------------------
(* collections.OrderedDict: a sequence of [key, val] in insertion order.   *)

OdKeys(od) == {od[i].key : i \in 1..Len(od)}

OdHas(od, k) == \E i \in 1..Len(od) : od[i].key = k

OdGet(od, k) == (CHOOSE e \in {od[i] : i \in 1..Len(od)} : e.key = k).val

\* od[k] = v: an existing key keeps its position, a new key goes last.
OdSet(od, k, v) ==
    IF OdHas(od, k)
    THEN [i \in 1..Len(od) |-> IF od[i].key = k THEN [key |-> k, val |-> v] ELSE od[i]]
    ELSE Append(od, [key |-> k, val |-> v])

\* od.pop(k) for a key that is present.
OdPop(od, k) == SelectSeq(od, LAMBDA e : e.key # k)

\* od.popitem() for a non-empty dictionary: the last entry leaves.
OdPopitem(od) == [od |-> SubSeq(od, 1, Len(od) - 1), key |-> od[Len(od)].key]

\* od.move_to_end(k) for a key that is present.
OdMoveToEnd(od, k) == Append(OdPop(od, k), [key |-> k, val |-> OdGet(od, k)])

(* collections.defaultdict: reading a missing key stores the default.      *)

DdHas(dd, k) == k \in DOMAIN dd

DdSet(dd, k, v) == [x \in (DOMAIN dd) \cup {k} |-> IF x = k THEN v ELSE dd[x]]

DdPop(dd, k) == [x \in (DOMAIN dd) \ {k} |-> dd[x]]

\* The dictionary after dd[k] was read, with the given default.
DdTouch(dd, k, default) == IF DdHas(dd, k) THEN dd ELSE DdSet(dd, k, default)

DdValues(dd) == {dd[x] : x \in DOMAIN dd}

-----------------------------------------------------------------------------
(* The object, and the outcome of a call on it.                            *)

Self ==
    [cache_data |-> cache_data, frequency |-> frequency, lru |-> lru,
     lru_counter |-> lru_counter, stdout |-> stdout]

Result(self, value, error) == [self |-> self, ret |-> value, raised |-> error]

\* print(f"DISCARD: {lru_key}")
DiscardLine(k) == [tag |-> "DISCARD", key |-> k]

\* The bug "max for min": the most frequently used key is the victim.
MinFreq_max(freqs) ==
    CHOOSE m \in DdValues(freqs) : \A n \in DdValues(freqs) : m >= n

\* min(self.frequency.values()), for a non-empty dictionary
MinFreq(freqs) ==
    CHOOSE m \in DdValues(freqs) : \A n \in DdValues(freqs) : m <= n

\* next(iter(bucket)), for a non-empty bucket
FirstKey(bucket) == bucket[1].key


-----------------------------------------------------------------------------
(* LFUCache                                                                *)

\* The bug "> for >=": eviction starts one entry too late.
AtCapacity_strict(self) == Len(self.cache_data) > MAX_ITEMS

\* len(self.cache_data) >= BaseCaching.MAX_ITEMS
AtCapacity(self) == Len(self.cache_data) >= MAX_ITEMS

\* The bug "print inside the if": the key is printed only when its bucket
\* was left empty.
evict_quiet(self) ==
    LET min_freq == MinFreq(self.frequency)
        lru_key  == FirstKey(self.lru[min_freq])
        bucket   == OdPop(self.lru[min_freq], lru_key)
    IN Result([self EXCEPT
                 !.cache_data = OdPop(@, lru_key),
                 !.frequency  = DdPop(@, lru_key),
                 !.lru        = IF bucket = <<>>
                                THEN DdPop(@, min_freq)
                                ELSE DdSet(@, min_freq, bucket),
                 !.stdout     = IF bucket = <<>>
                                THEN Append(@, DiscardLine(lru_key))
                                ELSE @],
              None, NoError)

\* The bug "if forgotten": the bucket of the victim is popped from the index
\* with the keys it still holds.
evict_dropBucket(self) ==
    LET min_freq == MinFreq(self.frequency)
        lru_key  == FirstKey(self.lru[min_freq])
    IN Result([self EXCEPT
                 !.cache_data = OdPop(@, lru_key),
                 !.frequency  = DdPop(@, lru_key),
                 !.lru        = DdPop(@, min_freq),
                 !.stdout     = Append(@, DiscardLine(lru_key))],
              None, NoError)

\* put, the eviction block: the first key of the bucket of the minimum
\* frequency leaves cache_data, frequency and its bucket; a bucket left
\* empty leaves the index; the key is printed.
evict(self) ==
    IF DOMAIN self.frequency = {}
    THEN Result(self, None, "ValueError")
    ELSE
      LET min_freq == MinFreq(self.frequency)
          touched  == DdTouch(self.lru, min_freq, <<>>)
      IN
      IF touched[min_freq] = <<>>
      THEN Result([self EXCEPT !.lru = touched], None, "StopIteration")
      ELSE
        LET lru_key == FirstKey(touched[min_freq])
            bucket  == OdPop(touched[min_freq], lru_key)
        IN
        IF ~OdHas(self.cache_data, lru_key)
        THEN Result([self EXCEPT !.lru = touched], None, "KeyError")
        ELSE IF ~DdHas(self.frequency, lru_key)
        THEN Result([self EXCEPT !.lru = touched,
                                 !.cache_data = OdPop(@, lru_key)],
                    None, "KeyError")
        ELSE
          Result([self EXCEPT
                    !.cache_data = OdPop(@, lru_key),
                    !.frequency  = DdPop(@, lru_key),
                    !.lru        = IF bucket = <<>>
                                   THEN DdPop(touched, min_freq)
                                   ELSE DdSet(touched, min_freq, bucket),
                    !.stdout     = Append(@, DiscardLine(lru_key))],
                 None, NoError)

\* The bug "counter incremented first": the stamp is the counter after the
\* increment.
insert_preIncrement(self, key, item) ==
    LET bucket == DdTouch(self.lru, 1, <<>>)[1]
    IN [self EXCEPT
          !.cache_data  = OdSet(@, key, item),
          !.frequency   = DdSet(@, key, 1),
          !.lru         = DdSet(@, 1, OdSet(bucket, key, self.lru_counter + 1)),
          !.lru_counter = @ + 1]

\* put, the last four statements: the new entry has frequency 1 and is
\* stamped with the counter, which then grows by one.
insert(self, key, item) ==
    LET bucket == DdTouch(self.lru, 1, <<>>)[1]
    IN [self EXCEPT
          !.cache_data  = OdSet(@, key, item),
          !.frequency   = DdSet(@, key, 1),
          !.lru         = DdSet(@, 1, OdSet(bucket, key, self.lru_counter)),
          !.lru_counter = @ + 1]

\* The bug "=+ for +=": the frequency is set to +1.
bumpFrequency_assign(freqs, key) == DdSet(freqs, key, 1)

\* get: self.frequency[key] += 1
bumpFrequency(freqs, key) == DdSet(freqs, key, freqs[key] + 1)

\* The bug "empty bucket not popped": the bucket stays in the index.
leaveBucket_noDrop(index, freq, key) ==
    DdSet(index, freq, OdPop(index[freq], key))

\* The bug "pop forgotten": the key stays in the bucket of its old frequency.
leaveBucket_keep(index, freq, key) == index

\* get: self.lru[freq].pop(key), and the bucket popped if that emptied it
leaveBucket(index, freq, key) ==
    LET bucket == OdPop(index[freq], key)
    IN IF bucket = <<>> THEN DdPop(index, freq) ELSE DdSet(index, freq, bucket)

\* The bug "stored first": the promoted key becomes the first key of the
\* bucket it enters (move_to_end(key, last=False)).
enterBucket_front(index, freq, key, counter) ==
    LET target == DdTouch(index, freq + 1, <<>>)[freq + 1]
    IN DdSet(index, freq + 1, <<[key |-> key, val |-> counter]>> \o target)

\* The bug "freq for freq + 1": the key goes back into the bucket it left.
enterBucket_same(index, freq, key, counter) ==
    LET target == DdTouch(index, freq, <<>>)[freq]
    IN DdSet(index, freq, OdSet(target, key, counter))

\* get: self.lru[freq + 1][key] = self.lru_counter
enterBucket(index, freq, key, counter) ==
    LET target == DdTouch(index, freq + 1, <<>>)[freq + 1]
    IN DdSet(index, freq + 1, OdSet(target, key, counter))

\* The bug "increment forgotten": a promotion stamps the key and leaves the
\* counter as it was.
promote_noIncrement(self, key) ==
    LET freq == self.frequency[key]
    IN Result([self EXCEPT
                 !.frequency = bumpFrequency(@, key),
                 !.lru       = enterBucket(leaveBucket(@, freq, key),
                                           freq, key, self.lru_counter)],
              None, NoError)

\* get, the promotion of a key: out of the bucket of its frequency, into
\* the bucket of the next one with a fresh stamp.
promote(self, key) ==
    LET freqs   == DdTouch(self.frequency, key, 0)
        freq    == freqs[key]
        bumped  == bumpFrequency(freqs, key)
        touched == DdTouch(self.lru, freq, <<>>)
    IN
    IF ~OdHas(touched[freq], key)
    THEN Result([self EXCEPT !.frequency = bumped, !.lru = touched],
                None, "KeyError")
    ELSE
      Result([self EXCEPT
                !.frequency   = bumped,
                !.lru         = enterBucket(leaveBucket(touched, freq, key),
                                            freq, key, self.lru_counter),
                !.lru_counter = @ + 1],
             None, NoError)

\* The bug "frequency read before the test": reading the defaultdict for a
\* key it does not hold stores a zero for it.
get_touch(self, key) ==
    LET read == [self EXCEPT !.frequency = DdTouch(@, key, 0)]
    IN
    IF key = None \/ ~OdHas(self.cache_data, key)
    THEN Result(read, None, NoError)
    ELSE
      LET value == OdGet(self.cache_data, key)
          p     == promote(self, key)
      IN IF p.raised # NoError THEN p ELSE Result(p.self, value, NoError)

get(self, key) ==
    IF key = None \/ ~OdHas(self.cache_data, key)
    THEN Result(self, None, NoError)
    ELSE
      LET value == OdGet(self.cache_data, key)
          p     == promote(self, key)
      IN IF p.raised # NoError THEN p ELSE Result(p.self, value, NoError)

\* The bug "return forgotten": an overwrite falls through to the insertion.
put_fallThrough(self, key, item) ==
    IF key = None \/ item = None
    THEN Result(self, None, NoError)
    ELSE
      LET g == IF OdHas(self.cache_data, key)
               THEN get([self EXCEPT !.cache_data = OdSet(@, key, item)], key)
               ELSE Result(self, None, NoError)
          e == IF g.raised = NoError /\ AtCapacity(g.self)
               THEN evict(g.self)
               ELSE g
      IN IF e.raised # NoError
         THEN Result(e.self, None, e.raised)
         ELSE Result(insert(e.self, key, item), None, NoError)

\* The bug "overwrite is not a use": the value is replaced, get is not called.
put_silentOverwrite(self, key, item) ==
    IF key = None \/ item = None
    THEN Result(self, None, NoError)
    ELSE IF OdHas(self.cache_data, key)
    THEN Result([self EXCEPT !.cache_data = OdSet(@, key, item)], None, NoError)
    ELSE
      LET e == IF AtCapacity(self) THEN evict(self) ELSE Result(self, None, NoError)
      IN IF e.raised # NoError
         THEN e
         ELSE Result(insert(e.self, key, item), None, NoError)

\* The bug "item not tested": only a null key is a no-op.
put_keyOnly(self, key, item) ==
    IF key = None
    THEN Result(self, None, NoError)
    ELSE IF OdHas(self.cache_data, key)
    THEN
      LET g == get([self EXCEPT !.cache_data = OdSet(@, key, item)], key)
      IN Result(g.self, None, g.raised)
    ELSE
      LET e == IF AtCapacity(self) THEN evict(self) ELSE Result(self, None, NoError)
      IN IF e.raised # NoError
         THEN e
         ELSE Result(insert(e.self, key, item), None, NoError)

\* The bug "insert, then evict": the new entry is stored before the victim
\* is chosen, so it can be the victim.
put_insertFirst(self, key, item) ==
    IF key = None \/ item = None
    THEN Result(self, None, NoError)
    ELSE IF OdHas(self.cache_data, key)
    THEN
      LET g == get([self EXCEPT !.cache_data = OdSet(@, key, item)], key)
      IN Result(g.self, None, g.raised)
    ELSE
      LET stored == insert(self, key, item)
      IN IF Len(stored.cache_data) > MAX_ITEMS
         THEN evict(stored)
         ELSE Result(stored, None, NoError)

put(self, key, item) ==
    IF key = None \/ item = None
    THEN Result(self, None, NoError)
    ELSE IF OdHas(self.cache_data, key)
    THEN
      LET g == get([self EXCEPT !.cache_data = OdSet(@, key, item)], key)
      IN Result(g.self, None, g.raised)
    ELSE
      LET e == IF AtCapacity(self) THEN evict(self) ELSE Result(self, None, NoError)
      IN IF e.raised # NoError
         THEN e
         ELSE Result(insert(e.self, key, item), None, NoError)

-----------------------------------------------------------------------------
(* Server.get_hyper_index                                                  *)

\* Rows of the data file, after the header.
DatasetSize == 4

\* The page sizes the client asks for.
MaxPageSize == 2

\* self.dataset()[i]
dataset(i) == <<"row", i>>

\* len(indexed_dataset): the number of rows the dictionary holds.
DictLen(indexed) == Cardinality(DOMAIN indexed)

\* The two assertions of get_hyper_index, for the integers the client
\* passes.
AssertionsHold(indexed, index, page_size) ==
    /\ 0 <= index /\ index < DictLen(indexed)
    /\ page_size > 0

\* The first loop: rows are collected from next_index on, while fewer than
\* page_size are collected and next_index is below len(indexed_dataset).
RECURSIVE CollectPage(_, _, _, _)
CollectPage(indexed, next_index, page_size, data) ==
    IF Len(data) < page_size /\ next_index < DictLen(indexed)
    THEN CollectPage(indexed, next_index + 1, page_size,
                     IF next_index \in DOMAIN indexed
                     THEN Append(data, indexed[next_index])
                     ELSE data)
    ELSE [data |-> data, next_index |-> next_index]

\* The second loop: next_index moves past deleted rows.
RECURSIVE SkipDeleted(_, _)
SkipDeleted(indexed, next_index) ==
    IF next_index < DictLen(indexed) /\ next_index \notin DOMAIN indexed
    THEN SkipDeleted(indexed, next_index + 1)
    ELSE next_index

\* The dictionary get_hyper_index returns when its assertions hold.
get_hyper_index(indexed, index, page_size) ==
    LET collected == CollectPage(indexed, index, page_size, <<>>)
    IN [index      |-> index,
        next_index |-> SkipDeleted(indexed, collected.next_index),
        page_size  |-> Len(collected.data),
        data       |-> collected.data]

\* Before the first call there is no page.
NoPage == [index |-> -1, next_index |-> -1, page_size |-> 0, data |-> <<>>]

InitServer ==
    /\ indexed_dataset = [i \in 0..(DatasetSize - 1) |-> dataset(i)]
    /\ cursor = 0
    /\ received = <<>>
    /\ request = [index |-> -1, page_size |-> 0]
    /\ page = NoPage
    /\ client = "start"

-----------------------------------------------------------------------------
(* LIFOCache                                                               *)

LifoSelf == [cache_data |-> lifo_cache_data, stdout |-> lifo_stdout]

\* The if block of put: at len(self.cache_data) >= MAX_ITEMS the last entry
\* is popped and its key printed.
LIFOCache_discard(self) ==
    IF Len(self.cache_data) >= MAX_ITEMS
    THEN [self EXCEPT
            !.cache_data = OdPopitem(@).od,
            !.stdout     = Append(@, DiscardLine(OdPopitem(self.cache_data).key))]
    ELSE self

LIFOCache_put(self, key, item) ==
    IF key = None \/ item = None
    THEN Result(self, None, NoError)
    ELSE Result([LIFOCache_discard(self) EXCEPT !.cache_data = OdSet(@, key, item)],
                None, NoError)

\* self.cache_data.get(key)
LIFOCache_get(self, key) ==
    IF key = None \/ ~OdHas(self.cache_data, key)
    THEN Result(self, None, NoError)
    ELSE Result(self, OdGet(self.cache_data, key), NoError)

InitLifo ==
    /\ lifo_cache_data = <<>>
    /\ lifo_stdout = <<>>
    /\ lifo_call = [op |-> "__init__", key |-> None, item |-> None]
    /\ lifo_ret = None
    /\ lifo_pre = [cache_data |-> <<>>, stdout |-> <<>>]

-----------------------------------------------------------------------------
(* MRUCache                                                                *)

MruSelf == [cache_data |-> mru_cache_data, stdout |-> mru_stdout]

\* The if / elif of put: a key that is present moves to the end; else, at
\* len(self.cache_data) >= MAX_ITEMS, the last entry is popped and its key
\* printed.
MRUCache_makeRoom(self, key) ==
    IF OdHas(self.cache_data, key)
    THEN [self EXCEPT !.cache_data = OdMoveToEnd(@, key)]
    ELSE IF Len(self.cache_data) >= MAX_ITEMS
    THEN [self EXCEPT
            !.cache_data = OdPopitem(@).od,
            !.stdout     = Append(@, DiscardLine(OdPopitem(self.cache_data).key))]
    ELSE self

MRUCache_put(self, key, item) ==
    IF key = None \/ item = None
    THEN Result(self, None, NoError)
    ELSE Result([MRUCache_makeRoom(self, key) EXCEPT
                   !.cache_data = OdSet(@, key, item)],
                None, NoError)

\* The bug "move_to_end forgotten": a get leaves the order as it is.
MRUCache_get_noMove(self, key) ==
    IF ~OdHas(self.cache_data, key) \/ key = None
    THEN Result(self, None, NoError)
    ELSE Result(self, OdGet(self.cache_data, key), NoError)

MRUCache_get(self, key) ==
    IF ~OdHas(self.cache_data, key) \/ key = None
    THEN Result(self, None, NoError)
    ELSE Result([self EXCEPT !.cache_data = OdMoveToEnd(@, key)],
                OdGet(self.cache_data, key), NoError)

InitMru ==
    /\ mru_cache_data = <<>>
    /\ mru_stdout = <<>>
    /\ mru_call = [op |-> "__init__", key |-> None, item |-> None]
    /\ mru_ret = None
    /\ mru_pre = [cache_data |-> <<>>, stdout |-> <<>>, last_used |-> None]
    /\ mru_last_used = None

-----------------------------------------------------------------------------
(* The state machine: any call of put or get, with any arguments.          *)

\* The keys a call removed from the value store, in the order of the store.
Removed(before, after) ==
    LET gone == SelectSeq(before, LAMBDA e : ~OdHas(after, e.key))
    IN [i \in 1..Len(gone) |-> gone[i].key]

\* The item of the latest put of each key present after a call.
LastPut(op, key, item, present) ==
    [k \in present |->
        IF op = "put" /\ key = k /\ item # None THEN item
        ELSE IF k \in DOMAIN last_put THEN last_put[k]
        ELSE None]

\* The accesses to each key present after a call (get of it, put of it with
\* an item) since the call that brought it in.
Uses(op, key, item, present) ==
    [k \in present |->
        IF k \notin OdKeys(cache_data) \/ k \notin DOMAIN uses THEN 0
        ELSE IF key = k /\ (op = "get" \/ item # None) THEN uses[k] + 1
        ELSE uses[k]]

Commit(op, key, item, r) ==
    /\ cache_data'  = r.self.cache_data
    /\ frequency'   = r.self.frequency
    /\ lru'         = r.self.lru
    /\ lru_counter' = r.self.lru_counter
    /\ stdout'      = r.self.stdout
    /\ call'        = [op |-> op, key |-> key, item |-> item]
    /\ ret'         = r.ret
    /\ raised'      = r.raised
    /\ pre'         = Self
    /\ evictions'   = evictions \o Removed(cache_data, r.self.cache_data)
    /\ last_put'    = LastPut(op, key, item, OdKeys(r.self.cache_data))
    /\ uses'        = Uses(op, key, item, OdKeys(r.self.cache_data))
    /\ UNCHANGED <<pageVars, lifoVars, mruVars>>

InitLfu ==
    /\ cache_data  = <<>>
    /\ frequency   = <<>>
    /\ lru         = <<>>
    /\ lru_counter = 0
    /\ stdout      = <<>>
    /\ call        = [op |-> "__init__", key |-> None, item |-> None]
    /\ ret         = None
    /\ raised      = NoError
    /\ pre         = [cache_data |-> <<>>, frequency |-> <<>>, lru |-> <<>>,
                      lru_counter |-> 0, stdout |-> <<>>]
    /\ evictions   = <<>>
    /\ last_put    = <<>>
    /\ uses        = <<>>

Init == InitLfu /\ InitServer /\ InitLifo /\ InitMru

Put(key, item) ==
    /\ raised = NoError
    /\ (key # None /\ item # None) => lru_counter < MaxCounter
    /\ Commit("put", key, item, put(Self, key, item))

Get(key) ==
    /\ raised = NoError
    /\ (key # None /\ OdHas(cache_data, key)) => lru_counter < MaxCounter
    /\ Commit("get", key, None, get(Self, key))

Next ==
    \/ \E key \in Keys \cup {None}, item \in Items \cup {None} : Put(key, item)
    \/ \E key \in Keys \cup {None} : Get(key)

Spec == Init /\ [][Next]_vars

-----------------------------------------------------------------------------
(* Vocabulary of the properties: the last call, seen from the state after  *)
(* it, with pre the object just before it.                                 *)

PreKeys == OdKeys(pre.cache_data)
NowKeys == OdKeys(cache_data)
GoneKeys == PreKeys \ NowKeys

\* The frequencies whose bucket holds k, and the stamp k carries there.
HoldersOf(index, k) == {f \in DOMAIN index : OdHas(index[f], k)}
StampIn(index, k) ==
    OdGet(index[CHOOSE f \in HoldersOf(index, k) : TRUE], k)

WasFull == Len(pre.cache_data) = MAX_ITEMS

PutNull == call.op = "put" /\ (call.key = None \/ call.item = None)
PutOverwrite ==
    call.op = "put" /\ call.key # None /\ call.item # None /\ call.key \in PreKeys
PutNew ==
    call.op = "put" /\ call.key # None /\ call.item # None /\ call.key \notin PreKeys
GetHit == call.op = "get" /\ call.key \in PreKeys
GetMiss == call.op = "get" /\ call.key \notin PreKeys

DiscardLines(keys) == [i \in 1..Len(keys) |-> DiscardLine(keys[i])]

-----------------------------------------------------------------------------
\* C1: a put of a new key into a cache holding MAX_ITEMS entries removes a
\* key; that key had the minimum frequency of the keys present before the
\* call, and the smallest stamp of the keys that had that frequency.
EvictionCorrectness ==
    (PutNew /\ WasFull) =>
        /\ GoneKeys # {}
        /\ \A v \in GoneKeys : \A k \in PreKeys :
              /\ pre.frequency[v] <= pre.frequency[k]
              /\ (k # v /\ pre.frequency[k] = pre.frequency[v])
                    => StampIn(pre.lru, v) < StampIn(pre.lru, k)

\* An eviction that the tie-break decided: several keys had the minimum
\* frequency.
EvictionTieWitness ==
    /\ PutNew /\ WasFull /\ GoneKeys # {}
    /\ \E v \in GoneKeys : \E k \in PreKeys \ {v} :
          pre.frequency[k] = pre.frequency[v]

\* C2: the value store never holds more than MAX_ITEMS entries.
CapacityInvariant == Len(cache_data) <= MAX_ITEMS

\* A full cache took a put of a new key and is full again.
CapacityWitness ==
    /\ PutNew /\ WasFull
    /\ Len(cache_data) = MAX_ITEMS
    /\ call.key \in NowKeys

\* C3: cache_data and frequency have the same keys; each of them is in the
\* bucket of its frequency, once, and in no other bucket; no bucket holds a
\* key that cache_data does not.
StructuralInvariant ==
    /\ NowKeys = DOMAIN frequency
    /\ \A k \in NowKeys : HoldersOf(lru, k) = {frequency[k]}
    /\ \A f \in DOMAIN lru :
          /\ OdKeys(lru[f]) \subseteq NowKeys
          /\ Cardinality(OdKeys(lru[f])) = Len(lru[f])

\* Two buckets are in use after an eviction and a promotion happened.
StructuralWitness ==
    /\ Cardinality(DOMAIN lru) >= 2
    /\ evictions # <<>>
    /\ GetHit

\* C4: a put with a non-null item for a key that is present replaces the
\* value, raises the frequency of the key by exactly 1, keeps the keys and
\* the size, removes nothing and prints nothing.
OverwriteEffect ==
    PutOverwrite =>
        /\ raised = NoError
        /\ NowKeys = PreKeys
        /\ Len(cache_data) = Len(pre.cache_data)
        /\ OdGet(cache_data, call.key) = call.item
        /\ DdHas(frequency, call.key)
        /\ frequency[call.key] = pre.frequency[call.key] + 1
        /\ stdout = pre.stdout

\* An overwrite with another value in a full cache.
OverwriteWitness ==
    /\ PutOverwrite /\ WasFull
    /\ OdGet(pre.cache_data, call.key) # call.item

\* C5: a get of a key that is present returns its value and promotes it: out
\* of the bucket of its frequency f, frequency f + 1, last in the bucket of
\* f + 1 with the counter as its stamp, larger than every other stamp there.
GetHitEffect ==
    GetHit =>
        LET k == call.key
            f == pre.frequency[k]
        IN /\ raised = NoError
           /\ ret = OdGet(pre.cache_data, k)
           /\ OdHas(cache_data, k) /\ ret = OdGet(cache_data, k)
           /\ DdHas(lru, f) => ~OdHas(lru[f], k)
           /\ DdHas(frequency, k) /\ frequency[k] = f + 1
           /\ DdHas(lru, f + 1)
           /\ OdHas(lru[f + 1], k)
           /\ lru[f + 1][Len(lru[f + 1])].key = k
           /\ OdGet(lru[f + 1], k) = pre.lru_counter
           /\ \A i \in 1..Len(lru[f + 1]) :
                 lru[f + 1][i].key # k => lru[f + 1][i].val < OdGet(lru[f + 1], k)

\* A promotion into a bucket that already had a member.
GetHitWitness ==
    /\ GetHit
    /\ DdHas(lru, pre.frequency[call.key] + 1)
    /\ Len(lru[pre.frequency[call.key] + 1]) >= 2

\* C6: a get with a null key or a key that is not present returns None and
\* changes nothing: cache_data, frequency, lru, lru_counter are as before.
GetMissFrame ==
    GetMiss =>
        /\ raised = NoError
        /\ ret = None
        /\ Self = pre

\* A miss for a real key in a cache that holds other keys.
GetMissWitness ==
    /\ GetMiss
    /\ call.key # None
    /\ WasFull

\* C7: a put with a null key or a null item raises nothing, removes nothing,
\* prints nothing and changes nothing.
PutNullFrame ==
    PutNull =>
        /\ raised = NoError
        /\ GoneKeys = {}
        /\ Self = pre

\* A put of a null item for a key that is present in a full cache.
PutNullWitness ==
    /\ PutNull
    /\ call.key \in PreKeys
    /\ call.item = None
    /\ WasFull

\* C8: over a call, the frequency of a key present before and after does not
\* decrease; a key that was not present before has frequency 1 and is the
\* key the call put.
FrequencyMonotone ==
    /\ \A k \in PreKeys \cap NowKeys :
          DdHas(frequency, k) /\ frequency[k] >= pre.frequency[k]
    /\ \A k \in NowKeys \ PreKeys :
          /\ DdHas(frequency, k) /\ frequency[k] = 1
          /\ call.op = "put" /\ call.key = k

\* A key that was evicted is inserted again, at frequency 1, while a key of
\* frequency 2 or more stays.
FrequencyResetWitness ==
    /\ PutNew
    /\ \E i \in 1..Len(evictions) : evictions[i] = call.key
    /\ frequency[call.key] = 1
    /\ \E k \in PreKeys \cap NowKeys : pre.frequency[k] >= 2

\* C9: a call prints one DISCARD line for each key it removes, naming that
\* key, and nothing else; all the output is the DISCARD lines of the keys
\* removed so far, in the order of their removal.
EvictionNotification ==
    /\ stdout = pre.stdout \o DiscardLines(Removed(pre.cache_data, cache_data))
    /\ stdout = DiscardLines(evictions)

\* A second eviction: the output has two lines.
NotificationWitness ==
    /\ PutNew /\ GoneKeys # {}
    /\ Len(stdout) >= 2

\* C10: a put of a new key with non-null arguments removes nothing from a
\* cache holding fewer than MAX_ITEMS entries and exactly one entry from one
\* holding MAX_ITEMS; then the key is present with the item, frequency 1 and
\* the counter before the call as its stamp, and the counter is one more.
InsertEffect ==
    PutNew =>
        /\ raised = NoError
        /\ Len(pre.cache_data) < MAX_ITEMS => GoneKeys = {}
        /\ WasFull => Cardinality(GoneKeys) = 1
        /\ OdHas(cache_data, call.key)
        /\ OdGet(cache_data, call.key) = call.item
        /\ DdHas(frequency, call.key) /\ frequency[call.key] = 1
        /\ HoldersOf(lru, call.key) # {}
        /\ StampIn(lru, call.key) = pre.lru_counter
        /\ lru_counter = pre.lru_counter + 1

\* An insertion that evicted a key of frequency 1 while the bucket of
\* frequency 1 kept another key.
InsertWitness ==
    /\ PutNew /\ WasFull
    /\ Cardinality(GoneKeys) = 1
    /\ DdHas(lru, 1) /\ Len(lru[1]) >= 2

\* C11: every frequency in the lru index has a bucket with at least one
\* key, and the frequencies in the index are exactly the frequencies of the
\* keys present.
NoEmptyBuckets ==
    /\ \A f \in DOMAIN lru : lru[f] # <<>>
    /\ DOMAIN lru = {frequency[k] : k \in NowKeys \cap DOMAIN frequency}

\* A get promoted the only key of its bucket, and the bucket left the index.
BucketDroppedWitness ==
    /\ GetHit
    /\ Len(pre.lru[pre.frequency[call.key]]) = 1
    /\ ~DdHas(lru, pre.frequency[call.key])
    /\ Cardinality(NowKeys) >= 2

\* The places of the lru index: a frequency and a position in its bucket.
Places(index) ==
    UNION {{<<f, i>> : i \in 1..Len(index[f])} : f \in DOMAIN index}

\* C12: lru_counter never decreases; it grows by exactly 1 on a put that
\* inserts a new key and on a promotion (get hit, overwrite put) and is
\* unchanged by every other call; the stamps in the buckets are pairwise
\* distinct and each is smaller than the counter.
CounterDiscipline ==
    /\ lru_counter >= pre.lru_counter
    /\ (PutNew \/ PutOverwrite \/ GetHit) => lru_counter = pre.lru_counter + 1
    /\ ~(PutNew \/ PutOverwrite \/ GetHit) => lru_counter = pre.lru_counter
    /\ \A p \in Places(lru) : lru[p[1]][p[2]].val < lru_counter
    /\ \A p, q \in Places(lru) :
          p # q => lru[p[1]][p[2]].val # lru[q[1]][q[2]].val

\* An overwrite stamped a key while stamps are held in two buckets.
CounterWitness ==
    /\ PutOverwrite
    /\ lru_counter = pre.lru_counter + 1
    /\ Cardinality(DOMAIN lru) >= 2
    /\ Cardinality(Places(lru)) = MAX_ITEMS

\* C13: no call raises; when a put reaches the eviction step, frequency was
\* not empty, its minimum was the minimum frequency of the keys present, and
\* the bucket of that minimum existed and was not empty.
NeverFails ==
    /\ raised = NoError
    /\ (PutNew /\ Len(pre.cache_data) >= MAX_ITEMS) =>
          /\ DOMAIN pre.frequency # {}
          /\ PreKeys \subseteq DOMAIN pre.frequency
          /\ \E k \in PreKeys : pre.frequency[k] = MinFreq(pre.frequency)
          /\ \A k \in PreKeys : pre.frequency[k] >= MinFreq(pre.frequency)
          /\ DdHas(pre.lru, MinFreq(pre.frequency))
          /\ pre.lru[MinFreq(pre.frequency)] # <<>>

\* An eviction from a cache whose keys had all been promoted: the victim
\* came from a bucket other than that of frequency 1.
EvictionDefinedWitness ==
    /\ PutNew /\ WasFull
    /\ raised = NoError
    /\ GoneKeys # {}
    /\ MinFreq(pre.frequency) >= 2

\* C16: in each bucket the keys are iterated in strictly ascending order of
\* their stamps, so the first key of a bucket has its smallest stamp.
BucketOrdering ==
    \A f \in DOMAIN lru :
        /\ \A i, j \in 1..Len(lru[f]) : i < j => lru[f][i].val < lru[f][j].val
        /\ \A i \in 1..Len(lru[f]) :
              lru[f] # <<>> => OdGet(lru[f], FirstKey(lru[f])) <= lru[f][i].val

\* After an eviction, a bucket of promoted keys holds two of them.
BucketOrderingWitness ==
    /\ evictions # <<>>
    /\ \E f \in DOMAIN lru : f >= 2 /\ Len(lru[f]) >= 2

\* C17: after a put with a non-null key and item the key is present, a get
\* of it there returns the item, and the call did not discard the key it
\* put; a get of any key present returns the item of the latest put of it.
RoundTrip ==
    /\ (PutNew \/ PutOverwrite) =>
          /\ call.key \in NowKeys
          /\ get(Self, call.key).ret = call.item
          /\ \A i \in (Len(pre.stdout) + 1)..Len(stdout) :
                stdout[i].key # call.key
    /\ \A k \in NowKeys :
          /\ k \in DOMAIN last_put
          /\ get(Self, k).ret = last_put[k]
    /\ GetHit => ret = last_put[call.key]

\* A get of a key that was evicted and put again.
RoundTripWitness ==
    /\ GetHit
    /\ \E i \in 1..Len(evictions) : evictions[i] = call.key
    /\ ret = last_put[call.key]

\* C18: the frequency of a key present is 1 plus the number of accesses to
\* it (get hits, puts of it with a non-null item while present) since the
\* put that inserted it.
FrequencyCountsUses ==
    \A k \in NowKeys :
        /\ DdHas(frequency, k)
        /\ k \in DOMAIN uses
        /\ frequency[k] = 1 + uses[k]

\* An overwrite is at least the second access to its key.
FrequencyCountsWitness ==
    /\ PutOverwrite
    /\ uses[call.key] >= 2
    /\ Cardinality(NowKeys) = MAX_ITEMS

\* Key k has the frequency and the stamp it had before the call.
SameFrequencyAndStamp(k) ==
    /\ DdHas(frequency, k)
    /\ frequency[k] = pre.frequency[k]
    /\ HoldersOf(lru, k) # {}
    /\ StampIn(lru, k) = StampIn(pre.lru, k)

\* Key k has the item it had before the call.
SameItem(k) ==
    /\ OdHas(cache_data, k)
    /\ OdGet(cache_data, k) = OdGet(pre.cache_data, k)

\* C19: a get changes no stored item and not the set of keys; a get hit or
\* an overwrite put of a key leaves the frequency and stamp of every other
\* key as they were; a put of a new key leaves the item, frequency and stamp
\* of every key but the new one and the evicted one as they were.
FrameOfCalls ==
    /\ call.op = "get" =>
          /\ NowKeys = PreKeys
          /\ \A k \in PreKeys : SameItem(k)
    /\ (GetHit \/ PutOverwrite) =>
          \A k \in PreKeys \ {call.key} : SameFrequencyAndStamp(k)
    /\ PutNew =>
          \A k \in (PreKeys \ GoneKeys) \ {call.key} :
              SameItem(k) /\ SameFrequencyAndStamp(k)

\* A get promoted a key out of a bucket in which another key stays.
FrameWitness ==
    /\ GetHit /\ WasFull
    /\ \E k \in PreKeys \ {call.key} :
          /\ pre.frequency[k] = pre.frequency[call.key]
          /\ SameFrequencyAndStamp(k)

-----------------------------------------------------------------------------
(* Paging through the Server while rows are deleted between the calls.     *)

\* del indexed_dataset[i], between two calls of the client
DeleteRow(i) ==
    /\ client \in {"start", "paged", "deleted"}
    /\ i \in DOMAIN indexed_dataset
    /\ indexed_dataset' = [j \in (DOMAIN indexed_dataset) \ {i} |-> indexed_dataset[j]]
    /\ client' = "deleted"
    /\ UNCHANGED <<cursor, received, request, page>>
    /\ UNCHANGED <<lfuVars, lifoVars, mruVars>>

\* The client calls get_hyper_index(cursor, page_size) and goes on from the
\* next_index it gets; it stops when the call raises AssertionError.
GetHyperIndex(page_size) ==
    /\ client \in {"start", "paged", "deleted"}
    /\ request' = [index |-> cursor, page_size |-> page_size]
    /\ IF AssertionsHold(indexed_dataset, cursor, page_size)
       THEN LET result == get_hyper_index(indexed_dataset, cursor, page_size)
            IN /\ page' = result
               /\ received' = received \o result.data
               /\ cursor' = result.next_index
               /\ client' = "paged"
       ELSE /\ client' = "stopped"
            /\ UNCHANGED <<cursor, received, page>>
    /\ UNCHANGED indexed_dataset
    /\ UNCHANGED <<lfuVars, lifoVars, mruVars>>

NextServer ==
    \/ \E i \in 0..(DatasetSize - 1) : DeleteRow(i)
    \/ \E page_size \in 1..MaxPageSize : GetHyperIndex(page_size)

SpecServer == Init /\ [][NextServer]_vars

\* The rows of the first n positions from index on that the dictionary holds.
RECURSIVE FirstRows(_, _, _)
FirstRows(indexed, index, n) ==
    LET ahead == {i \in DOMAIN indexed : i >= index}
        first == CHOOSE i \in ahead : \A j \in ahead : i <= j
    IN IF n = 0 \/ ahead = {}
       THEN <<>>
       ELSE <<indexed[first]>> \o FirstRows(indexed, first + 1, n - 1)

\* C14: each call returns the first page_size rows still present at
\* positions >= index, fewer only when no more remain; the client that pages
\* from index 0 with the next_index it gets, until an index is refused, has
\* received every row still present exactly once, in ascending order of
\* position.
DeletionResilientPaging ==
    /\ client = "paged" =>
          page.data = FirstRows(indexed_dataset, request.index, request.page_size)
    /\ client = "stopped" =>
          \A i \in DOMAIN indexed_dataset :
              Cardinality({n \in 1..Len(received) :
                              received[n] = indexed_dataset[i]}) = 1
    /\ \A m, n \in 1..Len(received) : m < n => received[m][2] < received[n][2]

-----------------------------------------------------------------------------
(* Any call of put or get of a LIFOCache, with any arguments.              *)

LifoCommit(op, key, item, r) ==
    /\ lifo_cache_data' = r.self.cache_data
    /\ lifo_stdout'     = r.self.stdout
    /\ lifo_call'       = [op |-> op, key |-> key, item |-> item]
    /\ lifo_ret'        = r.ret
    /\ lifo_pre'        = LifoSelf
    /\ UNCHANGED <<lfuVars, pageVars, mruVars>>

LifoPut(key, item) ==
    /\ (key # None /\ item # None /\ Len(lifo_cache_data) >= MAX_ITEMS)
          => Len(lifo_stdout) < MaxLines
    /\ LifoCommit("put", key, item, LIFOCache_put(LifoSelf, key, item))

LifoGet(key) ==
    LET r == LIFOCache_get(LifoSelf, key)
    IN /\ r.raised = NoError
       /\ LifoCommit("get", key, None, r)

NextLifo ==
    \/ \E key \in Keys \cup {None}, item \in Items \cup {None} : LifoPut(key, item)
    \/ \E key \in Keys \cup {None} : LifoGet(key)

SpecLifo == Init /\ [][NextLifo]_vars

\* C15: a put of a LIFOCache for a key that is present replaces the value of
\* the key, discards no entry, prints nothing and leaves the keys and the
\* number of entries as they were, also in a cache of MAX_ITEMS entries.
LifoOverwriteKeeps ==
    (/\ lifo_call.op = "put"
     /\ lifo_call.key # None /\ lifo_call.item # None
     /\ lifo_call.key \in OdKeys(lifo_pre.cache_data)) =>
        /\ OdKeys(lifo_cache_data) = OdKeys(lifo_pre.cache_data)
        /\ Len(lifo_cache_data) = Len(lifo_pre.cache_data)
        /\ OdGet(lifo_cache_data, lifo_call.key) = lifo_call.item
        /\ lifo_stdout = lifo_pre.stdout

-----------------------------------------------------------------------------
(* Any call of put or get of a MRUCache, with any arguments.               *)

\* The key of the latest successful put or get hit, after a call.
LastUsed(op, key, item) ==
    IF op = "put" /\ key # None /\ item # None THEN key
    ELSE IF op = "get" /\ key \in OdKeys(mru_cache_data) THEN key
    ELSE mru_last_used

MruCommit(op, key, item, r) ==
    /\ mru_cache_data' = r.self.cache_data
    /\ mru_stdout'     = r.self.stdout
    /\ mru_call'       = [op |-> op, key |-> key, item |-> item]
    /\ mru_ret'        = r.ret
    /\ mru_pre'        = [cache_data |-> mru_cache_data, stdout |-> mru_stdout,
                          last_used |-> mru_last_used]
    /\ mru_last_used'  = LastUsed(op, key, item)
    /\ UNCHANGED <<lfuVars, pageVars, lifoVars>>

MruPut(key, item) ==
    /\ (/\ key # None /\ item # None
        /\ ~OdHas(mru_cache_data, key)
        /\ Len(mru_cache_data) >= MAX_ITEMS) => Len(mru_stdout) < MaxLines
    /\ MruCommit("put", key, item, MRUCache_put(MruSelf, key, item))

MruGet(key) ==
    LET r == MRUCache_get(MruSelf, key)
    IN /\ r.raised = NoError
       /\ MruCommit("get", key, None, r)

NextMru ==
    \/ \E key \in Keys \cup {None}, item \in Items \cup {None} : MruPut(key, item)
    \/ \E key \in Keys \cup {None} : MruGet(key)

SpecMru == Init /\ [][NextMru]_vars

MruPutNew ==
    /\ mru_call.op = "put"
    /\ mru_call.key # None /\ mru_call.item # None
    /\ mru_call.key \notin OdKeys(mru_pre.cache_data)

MruDiscarded == Removed(mru_pre.cache_data, mru_cache_data)

\* C20: a put of a new key with a non-null item into a MRUCache of MAX_ITEMS
\* entries discards exactly one entry, the key of the latest successful put
\* or get hit before the call, and prints it; a put for a key that is present
\* and a get discard nothing; the cache never has more than MAX_ITEMS
\* entries.
MruEviction ==
    /\ (MruPutNew /\ Len(mru_pre.cache_data) = MAX_ITEMS) =>
          /\ MruDiscarded = <<mru_pre.last_used>>
          /\ mru_stdout = Append(mru_pre.stdout, DiscardLine(mru_pre.last_used))
    /\ (\/ mru_call.op = "get"
        \/ mru_call.op = "put" /\ mru_call.key \in OdKeys(mru_pre.cache_data)) =>
          /\ MruDiscarded = <<>>
          /\ mru_stdout = mru_pre.stdout
    /\ Len(mru_cache_data) <= MAX_ITEMS

\* A second eviction from a full cache, of a key that was not the last one
\* to be inserted as a new key.
MruEvictionWitness ==
    /\ MruPutNew
    /\ Len(mru_pre.cache_data) = MAX_ITEMS
    /\ MruDiscarded = <<mru_pre.last_used>>
    /\ Len(mru_stdout) >= 2
    /\ mru_pre.stdout[Len(mru_pre.stdout)].key = mru_call.key

=============================================================================
